---- MODULE Spec2Model ----
(***************************************************************************)
(* A model of snsapp (views.py, urls.py): the Post / Connection store and  *)
(* the eleven routed views.  Every view is a pure operator from the store  *)
(* and the request to the new store and the response; the actions apply    *)
(* them; the response is an output, not state.  Spec serves one request at *)
(* a time; LikeConcSpec and ConnConcSpec interleave the database           *)
(* statements of concurrent like toggles and of concurrent requests that   *)
(* run Connection.objects.get_or_create.                                   *)
(***************************************************************************)
EXTENDS Integers, Sequences, FiniteSets

VARIABLES post, like, connection, following, nextPost, nextConn,
          req, liking, toggled

vars == <<post, like, connection, following, nextPost, nextConn,
          req, liking, toggled>>

-----------------------------------------------------------------------------
(* Bounds and input sets *)

\* Post rows ever inserted (primary keys are never reused).
MaxPosts == 2

Users == {"A", "B"}

\* Requests that ConnConcSpec serves at the same time.
Slots == {1, 2}

\* Primary keys a request URL may carry: <int:pk>.
Pks == 1..MaxPosts

\* Submitted forms: fields = ['title', 'content'].
Forms == { [title |-> "Hello", content |-> "World"],
           [title |-> "Bye",   content |-> "Moon"],
           [title |-> "",      content |-> "World"] }

Methods == {"GET", "POST"}

\* A GET carries no form.
NoForm == [title |-> "", content |-> ""]

\* What a browser sends to a form view: a GET, or a POST of a form.
Submissions == {<<"GET", NoForm>>} \cup {<<"POST", form>> : form \in Forms}

-----------------------------------------------------------------------------
(* The store *)

Store == [post |-> post, like |-> like, connection |-> connection,
          following |-> following, nextPost |-> nextPost, nextConn |-> nextConn]

\* Post.title and Post.content are required fields of the model form.
FormIsValid(form) == form.title # "" /\ form.content # ""

\* Mutant: Connection.user declared as a plain foreign key, no unique index.
ConnectionUserNotUnique == FALSE

\* Connection.user is one-to-one: the table has a unique index on user.
ConnectionUserUnique == TRUE

NoConnection == <<>>

Response(code, exc, location, object_list, conn) ==
    [status |-> code, exc |-> exc, location |-> location,
     object_list |-> object_list, connection |-> conn]

Result(s, r) == [s |-> s, resp |-> r]

\* Existing primary keys in ascending order.
PostSeq(s) == SelectSeq([i \in 1..(s.nextPost - 1) |-> i],
                        LAMBDA pk : pk \in DOMAIN s.post)

\* Connection.objects.filter(user=u)
ConnectionsOf(s, u) == {c \in s.connection : c.user = u}

\* connection.following.all()
FollowingAll(s, id) == {v \in Users : <<id, v>> \in s.following}

\* INSERT INTO connection (user) VALUES (u)
ConnInsert(s, u) ==
    IF ConnectionUserUnique /\ ConnectionsOf(s, u) # {}
    THEN [s |-> s, exc |-> "IntegrityError", obj |-> 0, created |-> FALSE]
    ELSE [s |-> [s EXCEPT !.connection = @ \cup {[id |-> s.nextConn, user |-> u]},
                          !.nextConn = @ + 1],
          exc |-> "", obj |-> s.nextConn, created |-> TRUE]

\* Connection.objects.get(user=u), when a row matches
ConnGet(s, u) ==
    LET rows == ConnectionsOf(s, u) IN
    IF Cardinality(rows) > 1
    THEN [s |-> s, exc |-> "MultipleObjectsReturned", obj |-> 0, created |-> FALSE]
    ELSE [s |-> s, exc |-> "", obj |-> (CHOOSE c \in rows : TRUE).id, created |-> FALSE]

\* Mutant: Connection.objects.create(user=u), with no lookup before it.
GetOrCreateAlwaysCreate(s, u) == ConnInsert(s, u)

\* Connection.objects.get_or_create(user=u) with no statement of another
\* request between its lookup and its insert: (obj, created), or an exception.
GetOrCreate(s, u) ==
    IF ConnectionsOf(s, u) # {} THEN ConnGet(s, u)
    ELSE LET ins == ConnInsert(s, u) IN
         IF ins.exc = "IntegrityError" THEN ConnGet(s, u) ELSE ins

ServerError(s, exc) == Result(s, Response(500, exc, "", <<>>, NoConnection))

-----------------------------------------------------------------------------
(* The views *)

\* Mutant: Post.objects.all(), the exclude forgotten.
HomeGetQuerysetAll(s, u) == PostSeq(s)

\* Home.get_queryset: Post.objects.exclude(user=request.user)
HomeGetQueryset(s, u) == SelectSeq(PostSeq(s), LAMBDA pk : s.post[pk].user # u)

\* MyPost.get_queryset: Post.objects.filter(user=request.user)
MyPostGetQueryset(s, u) == SelectSeq(PostSeq(s), LAMBDA pk : s.post[pk].user = u)

\* Mutant: exclude(user__in=all_follow) in place of filter.
FollowListGetQuerysetExclude(s, id) ==
    SelectSeq(PostSeq(s), LAMBDA pk : s.post[pk].user \notin FollowingAll(s, id))

\* FollowList.get_queryset: Post.objects.filter(user__in=all_follow), where
\* all_follow is the following set of the connection fetched before it.
FollowListGetQueryset(s, id) ==
    SelectSeq(PostSeq(s), LAMBDA pk : s.post[pk].user \in FollowingAll(s, id))

\* context['connection'] = (obj, created)
ContextConnection(g) == <<g.obj, g.created>>

HomeView(s, u) ==
    LET g == GetOrCreate(s, u) IN
    IF g.exc # "" THEN ServerError(s, g.exc)
    ELSE Result(g.s, Response(200, "", "", HomeGetQueryset(g.s, u),
                              ContextConnection(g)))

MyPostView(s, u) ==
    Result(s, Response(200, "", "", MyPostGetQueryset(s, u), NoConnection))

\* CreatePost.form_valid: form.instance.user = request.user, then the insert.
FormValid(s, u, form) ==
    [s EXCEPT !.post = [pk \in DOMAIN s.post \cup {s.nextPost} |->
                          IF pk = s.nextPost
                          THEN [user |-> u, title |-> form.title,
                                content |-> form.content]
                          ELSE s.post[pk]],
              !.nextPost = @ + 1]

CreatePostView(s, u, method, form) ==
    IF method = "GET" \/ ~FormIsValid(form)
    THEN Result(s, Response(200, "", "", <<>>, NoConnection))
    ELSE Result(FormValid(s, u, form), Response(302, "", "mypost", <<>>, NoConnection))

DetailPostView(s, u, pk) ==
    IF pk \notin DOMAIN s.post
    THEN Result(s, Response(404, "Http404", "", <<>>, NoConnection))
    ELSE LET g == GetOrCreate(s, u) IN
         IF g.exc # "" THEN ServerError(s, g.exc)
         ELSE Result(g.s, Response(200, "", "", <<pk>>, ContextConnection(g)))

\* Mutant: a test_func that lets every logged-in user through.
TestFuncAlwaysPasses(s, u, pk) == TRUE

\* UpdatePost.test_func / DeletePost.test_func, once the post is fetched.
TestFunc(s, u, pk) == s.post[pk].user = u

Forbidden(s) == Result(s, Response(403, "PermissionDenied", "", <<>>, NoConnection))

UpdatePostView(s, u, pk, method, form) ==
    IF pk \notin DOMAIN s.post THEN ServerError(s, "DoesNotExist")
    ELSE IF ~TestFunc(s, u, pk) THEN Forbidden(s)
    ELSE IF method = "GET" \/ ~FormIsValid(form)
    THEN Result(s, Response(200, "", "", <<pk>>, NoConnection))
    ELSE Result([s EXCEPT !.post[pk].title = form.title,
                          !.post[pk].content = form.content],
                Response(302, "", "detail", <<pk>>, NoConnection))

\* Mutant: the post row deleted, its like rows left behind.
DeleteWithoutCascade(s, pk) ==
    [s EXCEPT !.post = [q \in DOMAIN s.post \ {pk} |-> s.post[q]]]

\* Post.delete(): the row, and the rows of the like table that reference it.
DeleteCascade(s, pk) ==
    [s EXCEPT !.post = [q \in DOMAIN s.post \ {pk} |-> s.post[q]],
              !.like = {l \in s.like : l[1] # pk}]

DeletePostView(s, u, pk, method) ==
    IF pk \notin DOMAIN s.post THEN ServerError(s, "DoesNotExist")
    ELSE IF ~TestFunc(s, u, pk) THEN Forbidden(s)
    ELSE IF method = "GET"
    THEN Result(s, Response(200, "", "", <<pk>>, NoConnection))
    ELSE Result(DeleteCascade(s, pk), Response(302, "", "mypost", <<>>, NoConnection))

\* Mutant: the else branch only, add whatever the membership.
LikeWriteAddOnly(s, u, pk, member) == [s EXCEPT !.like = @ \cup {<<pk, u>>}]

\* Mutant: related_post.like.clear() in place of remove(user).
LikeWriteClear(s, u, pk, member) ==
    IF member THEN [s EXCEPT !.like = {l \in @ : l[1] # pk}]
    ELSE [s EXCEPT !.like = @ \cup {<<pk, u>>}]

\* related_post.like.remove(user) / related_post.like.add(user)
LikeWrite(s, u, pk, member) ==
    IF member THEN [s EXCEPT !.like = @ \ {<<pk, u>>}]
    ELSE [s EXCEPT !.like = @ \cup {<<pk, u>>}]

\* LikeBase.get, then the redirect of LikeHome.get / LikeDetail.get
LikeBaseGet(s, u, pk, location) ==
    IF pk \notin DOMAIN s.post THEN ServerError(s, "DoesNotExist")
    ELSE Result(LikeWrite(s, u, pk, <<pk, u>> \in s.like),
                Response(302, "", location, <<>>, NoConnection))

\* my_connection[0].following.remove(target) / .add(target)
FollowWrite(s, id, target, member) ==
    IF member THEN [s EXCEPT !.following = @ \ {<<id, target>>}]
    ELSE [s EXCEPT !.following = @ \cup {<<id, target>>}]

\* Mutant: get_or_create before Post.objects.get.
FollowBaseGetConnectionFirst(s, u, pk, location) ==
    LET g == GetOrCreate(s, u) IN
    IF g.exc # "" THEN ServerError(s, g.exc)
    ELSE IF pk \notin DOMAIN s.post THEN ServerError(g.s, "DoesNotExist")
    ELSE LET target_user == s.post[pk].user IN
         Result(FollowWrite(g.s, g.obj, target_user,
                            target_user \in FollowingAll(g.s, g.obj)),
                Response(302, "", location, <<>>, NoConnection))

\* Mutant: get_or_create(user=target_user), and request.user toggled in it.
FollowBaseGetTargetsConnection(s, u, pk, location) ==
    IF pk \notin DOMAIN s.post THEN ServerError(s, "DoesNotExist")
    ELSE LET target_user == s.post[pk].user
             g == GetOrCreate(s, target_user) IN
         IF g.exc # "" THEN ServerError(s, g.exc)
         ELSE Result(FollowWrite(g.s, g.obj, u, u \in FollowingAll(g.s, g.obj)),
                     Response(302, "", location, <<>>, NoConnection))

\* FollowBase.get, then the redirect of FollowHome.get / FollowDetail.get
FollowBaseGet(s, u, pk, location) ==
    IF pk \notin DOMAIN s.post THEN ServerError(s, "DoesNotExist")
    ELSE LET target_user == s.post[pk].user
             g == GetOrCreate(s, u) IN
         IF g.exc # "" THEN ServerError(s, g.exc)
         ELSE Result(FollowWrite(g.s, g.obj, target_user,
                                 target_user \in FollowingAll(g.s, g.obj)),
                     Response(302, "", location, <<>>, NoConnection))

\* FollowList.get_queryset, then FollowList.get_context_data
FollowListView(s, u) ==
    LET g == GetOrCreate(s, u) IN
    IF g.exc # "" THEN ServerError(s, g.exc)
    ELSE LET g2 == GetOrCreate(g.s, u) IN
         IF g2.exc # "" THEN ServerError(g.s, g2.exc)
         ELSE Result(g2.s, Response(200, "", "", FollowListGetQueryset(g2.s, g.obj),
                                    ContextConnection(g2)))

\* urlpatterns: the view each route name serves.
Views == {"home", "mypost", "create", "detail", "update", "delete",
          "like-home", "like-detail", "follow-home", "follow-detail",
          "follow-list"}

LikeViews == {"like-home", "like-detail"}

FollowViews == {"follow-home", "follow-detail"}

Dispatch(s, view, u, pk, method, form) ==
    CASE view = "home"          -> HomeView(s, u)
      [] view = "mypost"        -> MyPostView(s, u)
      [] view = "create"        -> CreatePostView(s, u, method, form)
      [] view = "detail"        -> DetailPostView(s, u, pk)
      [] view = "update"        -> UpdatePostView(s, u, pk, method, form)
      [] view = "delete"        -> DeletePostView(s, u, pk, method)
      [] view = "like-home"     -> LikeBaseGet(s, u, pk, "home")
      [] view = "like-detail"   -> LikeBaseGet(s, u, pk, "detail")
      [] view = "follow-home"   -> FollowBaseGet(s, u, pk, "home")
      [] view = "follow-detail" -> FollowBaseGet(s, u, pk, "detail")
      [] view = "follow-list"   -> FollowListView(s, u)

-----------------------------------------------------------------------------
(* Requests served one at a time *)

\* No request in flight.
Idle == [pc |-> "idle"]

Init ==
    /\ post = <<>>
    /\ like = {}
    /\ connection = {}
    /\ following = {}
    /\ nextPost = 1
    /\ nextConn = 1
    /\ req = [r \in Slots |-> Idle]
    /\ liking = [u \in Users |-> Idle]
    /\ toggled = {}

Commit(s) ==
    /\ post' = s.post
    /\ like' = s.like
    /\ connection' = s.connection
    /\ following' = s.following
    /\ nextPost' = s.nextPost
    /\ nextConn' = s.nextConn

\* A request served from arrival to response with no other request between.
Serve(view, u, pk, method, form) == Commit(Dispatch(Store, view, u, pk, method, form).s)

Home(u) ==
    /\ Serve("home", u, 1, "GET", NoForm)
    /\ UNCHANGED <<req, liking, toggled>>

MyPost(u) ==
    /\ Serve("mypost", u, 1, "GET", NoForm)
    /\ UNCHANGED <<req, liking, toggled>>

CreatePost(u, method, form) ==
    /\ nextPost <= MaxPosts
    /\ Serve("create", u, 1, method, form)
    /\ UNCHANGED <<req, liking, toggled>>

DetailPost(u, pk) ==
    /\ Serve("detail", u, pk, "GET", NoForm)
    /\ UNCHANGED <<req, liking, toggled>>

UpdatePost(u, pk, method, form) ==
    /\ Serve("update", u, pk, method, form)
    /\ UNCHANGED <<req, liking, toggled>>

DeletePost(u, pk, method) ==
    /\ Serve("delete", u, pk, method, NoForm)
    /\ UNCHANGED <<req, liking, toggled>>

LikeHome(u, pk) ==
    /\ Serve("like-home", u, pk, "GET", NoForm)
    /\ UNCHANGED <<req, liking, toggled>>

LikeDetail(u, pk) ==
    /\ Serve("like-detail", u, pk, "GET", NoForm)
    /\ UNCHANGED <<req, liking, toggled>>

FollowHome(u, pk) ==
    /\ Serve("follow-home", u, pk, "GET", NoForm)
    /\ UNCHANGED <<req, liking, toggled>>

FollowDetail(u, pk) ==
    /\ Serve("follow-detail", u, pk, "GET", NoForm)
    /\ UNCHANGED <<req, liking, toggled>>

FollowList(u) ==
    /\ Serve("follow-list", u, 1, "GET", NoForm)
    /\ UNCHANGED <<req, liking, toggled>>

Next ==
    \/ \E u \in Users : Home(u)
    \/ \E u \in Users : MyPost(u)
    \/ \E u \in Users, sub \in Submissions : CreatePost(u, sub[1], sub[2])
    \/ \E u \in Users, pk \in Pks : DetailPost(u, pk)
    \/ \E u \in Users, pk \in Pks, sub \in Submissions : UpdatePost(u, pk, sub[1], sub[2])
    \/ \E u \in Users, pk \in Pks, method \in Methods : DeletePost(u, pk, method)
    \/ \E u \in Users, pk \in Pks : LikeHome(u, pk)
    \/ \E u \in Users, pk \in Pks : LikeDetail(u, pk)
    \/ \E u \in Users, pk \in Pks : FollowHome(u, pk)
    \/ \E u \in Users, pk \in Pks : FollowDetail(u, pk)
    \/ \E u \in Users : FollowList(u)

Spec == Init /\ [][Next]_vars

\* The same system: the properties of the follow feature and of the
\* Connection are checked in runs of their own.
SpecFollow == Init /\ [][Next]_vars

SpecConnection == Init /\ [][Next]_vars

-----------------------------------------------------------------------------
(* Concurrent like toggles: one request in flight per user, the statements *)
(* of different users' requests interleaved.                                *)

\* LikeBase.get: related_post = Post.objects.get(pk=pk)
ConcLike(u, view, pk) ==
    /\ liking[u] = Idle
    /\ liking' = IF pk \in DOMAIN post
                 THEN [liking EXCEPT ![u] = [pc |-> "check", view |-> view,
                                            pk |-> pk, member |-> FALSE]]
                 ELSE liking
    /\ UNCHANGED <<post, like, connection, following, nextPost, nextConn, req, toggled>>

\* if self.request.user in related_post.like.all():
LikeCheck(u) ==
    /\ liking[u].pc = "check"
    /\ liking' = [liking EXCEPT ![u].pc = "act",
                                ![u].member = <<liking[u].pk, u>> \in like]
    /\ UNCHANGED <<post, like, connection, following, nextPost, nextConn, req, toggled>>

\* related_post.like.remove(user) / .add(user), and the redirect
LikeAct(u) ==
    /\ liking[u].pc = "act"
    /\ Commit(LikeWrite(Store, u, liking[u].pk, liking[u].member))
    /\ liking' = [liking EXCEPT ![u] = Idle]
    /\ toggled' = IF <<liking[u].pk, u>> \in toggled
                  THEN toggled \ {<<liking[u].pk, u>>}
                  ELSE toggled \cup {<<liking[u].pk, u>>}
    /\ UNCHANGED req

LikeConcNext ==
    \/ \E u \in Users : CreatePost(u, "POST", [title |-> "Hello", content |-> "World"])
    \/ \E u \in Users, view \in LikeViews, pk \in Pks : ConcLike(u, view, pk)
    \/ \E u \in Users : LikeCheck(u)
    \/ \E u \in Users : LikeAct(u)

LikeConcSpec == Init /\ [][LikeConcNext]_vars

-----------------------------------------------------------------------------
(* Concurrent requests that fetch the Connection: the statements of        *)
(* get_or_create (lookup, insert, lookup again after IntegrityError) and   *)
(* of the follow toggle interleave, also between requests of one user.     *)

Request(kind, u, target) ==
    [pc |-> "lookup", kind |-> kind, user |-> u, target |-> target,
     obj |-> 0, member |-> FALSE, second |-> FALSE]

StoreUnchanged == UNCHANGED <<post, like, connection, following, nextPost, nextConn>>

\* Home.get_context_data (the queryset is evaluated when the page renders)
ConcHome(r, u) ==
    /\ req[r] = Idle
    /\ req' = [req EXCEPT ![r] = Request("context", u, u)]
    /\ StoreUnchanged /\ UNCHANGED <<liking, toggled>>

\* DetailPost: get_object, then get_context_data
ConcDetail(r, u, pk) ==
    /\ req[r] = Idle
    /\ req' = IF pk \in DOMAIN post
              THEN [req EXCEPT ![r] = Request("context", u, u)]
              ELSE req
    /\ StoreUnchanged /\ UNCHANGED <<liking, toggled>>

\* FollowBase.get: target_user = Post.objects.get(pk=pk).user
ConcFollow(r, u, pk) ==
    /\ req[r] = Idle
    /\ req' = IF pk \in DOMAIN post
              THEN [req EXCEPT ![r] = Request("follow", u, post[pk].user)]
              ELSE req
    /\ StoreUnchanged /\ UNCHANGED <<liking, toggled>>

\* FollowList.get_queryset
ConcFollowList(r, u) ==
    /\ req[r] = Idle
    /\ req' = [req EXCEPT ![r] = Request("follow-list", u, u)]
    /\ StoreUnchanged /\ UNCHANGED <<liking, toggled>>

\* The request after its get_or_create returned obj: the view is done, or
\* goes on to the follow toggle, or to the get_or_create of
\* FollowList.get_context_data.
AfterGetOrCreate(q, obj) ==
    IF q.kind = "follow" THEN [q EXCEPT !.pc = "check", !.obj = obj]
    ELSE IF q.kind = "follow-list" /\ ~q.second
    THEN [q EXCEPT !.pc = "lookup", !.obj = obj, !.second = TRUE]
    ELSE Idle

\* get_or_create: self.get(**kwargs)
GetOrCreateLookup(r) ==
    /\ req[r].pc = "lookup"
    /\ LET rows == ConnectionsOf(Store, req[r].user) IN
       req' = [req EXCEPT ![r] =
                 IF rows = {} THEN [req[r] EXCEPT !.pc = "insert"]
                 ELSE LET g == ConnGet(Store, req[r].user) IN
                      IF g.exc # "" THEN Idle ELSE AfterGetOrCreate(req[r], g.obj)]
    /\ StoreUnchanged /\ UNCHANGED <<liking, toggled>>

\* get_or_create: self.create(**params)
GetOrCreateInsert(r) ==
    /\ req[r].pc = "insert"
    /\ LET ins == ConnInsert(Store, req[r].user) IN
       /\ Commit(ins.s)
       /\ req' = [req EXCEPT ![r] =
                    IF ins.exc # "" THEN [req[r] EXCEPT !.pc = "refetch"]
                    ELSE AfterGetOrCreate(req[r], ins.obj)]
    /\ UNCHANGED <<liking, toggled>>

\* get_or_create: except IntegrityError: self.get(**kwargs)
GetOrCreateRefetch(r) ==
    /\ req[r].pc = "refetch"
    /\ req' = [req EXCEPT ![r] =
                 IF ConnectionsOf(Store, req[r].user) = {} THEN Idle
                 ELSE LET g == ConnGet(Store, req[r].user) IN
                      IF g.exc # "" THEN Idle ELSE AfterGetOrCreate(req[r], g.obj)]
    /\ StoreUnchanged /\ UNCHANGED <<liking, toggled>>

\* if target_user in my_connection[0].following.all():
FollowCheck(r) ==
    /\ req[r].pc = "check"
    /\ req' = [req EXCEPT ![r].pc = "act",
                          ![r].member = req[r].target \in FollowingAll(Store, req[r].obj)]
    /\ StoreUnchanged /\ UNCHANGED <<liking, toggled>>

\* my_connection[0].following.remove(target_user) / .add(target_user)
FollowAct(r) ==
    /\ req[r].pc = "act"
    /\ Commit(FollowWrite(Store, req[r].obj, req[r].target, req[r].member))
    /\ req' = [req EXCEPT ![r] = Idle]
    /\ UNCHANGED <<liking, toggled>>

ConnConcNext ==
    \/ \E u \in Users : CreatePost(u, "POST", [title |-> "Hello", content |-> "World"])
    \/ \E r \in Slots, u \in Users : ConcHome(r, u)
    \/ \E r \in Slots, u \in Users, pk \in Pks : ConcDetail(r, u, pk)
    \/ \E r \in Slots, u \in Users, pk \in Pks : ConcFollow(r, u, pk)
    \/ \E r \in Slots, u \in Users : ConcFollowList(r, u)
    \/ \E r \in Slots : GetOrCreateLookup(r)
    \/ \E r \in Slots : GetOrCreateInsert(r)
    \/ \E r \in Slots : GetOrCreateRefetch(r)
    \/ \E r \in Slots : FollowCheck(r)
    \/ \E r \in Slots : FollowAct(r)

ConnConcSpec == Init /\ [][ConnConcNext]_vars

-----------------------------------------------------------------------------
(* Vocabulary of the properties *)

Range(seq) == {seq[i] : i \in DOMAIN seq}

Count(seq, x) == Cardinality({i \in DOMAIN seq : seq[i] = x})

\* The views that run Connection.objects.get_or_create.
ConnectionViews == {"home", "detail", "follow-list"} \cup FollowViews

ViewsWithPk == {"detail", "update", "delete"} \cup LikeViews \cup FollowViews

Get(s, view, u, pk) == Dispatch(s, view, u, pk, "GET", NoForm)

\* The object_list a list view renders for u.
ListOthers(s, u) == Get(s, "home", u, 1).resp.object_list

ListMine(s, u) == Get(s, "mypost", u, 1).resp.object_list

ListFollowing(s, u) == Get(s, "follow-list", u, 1).resp.object_list

\* The following set of u's Connection (empty while u has no Connection).
FollowingOf(s, u) == UNION {FollowingAll(s, c.id) : c \in ConnectionsOf(s, u)}

Liked(s, u, pk) == <<pk, u>> \in s.like

PostsOwnedBy(s, o) == {pk \in DOMAIN s.post : s.post[pk].user = o}

\* Every request a user can send, one per distinct input of its view.
Requests ==
    {<<view, u, 1, "GET", NoForm>> : view \in {"home", "mypost", "follow-list"}, u \in Users}
    \cup {<<"create", u, 1, sub[1], sub[2]>> : u \in Users, sub \in Submissions}
    \cup {<<view, u, pk, "GET", NoForm>> :
            view \in {"detail"} \cup LikeViews \cup FollowViews, u \in Users, pk \in Pks}
    \cup {<<"update", u, pk, sub[1], sub[2]>> : u \in Users, pk \in Pks, sub \in Submissions}
    \cup {<<"delete", u, pk, m, NoForm>> : u \in Users, pk \in Pks, m \in Methods}

Do(s, q) == Dispatch(s, q[1], q[2], q[3], q[4], q[5])

-----------------------------------------------------------------------------
(* C1 *)

\* C1: update and delete of a post by a user other than its owner are
\* answered 403 and leave the store (the post, its title, content, owner and
\* likes) as it was; by the owner they are never answered 403, a valid POST
\* of the update form sets title and content and nothing else, and a POST of
\* the delete removes the post.
C1_OwnerOnlyMutation ==
    \A u \in Users, pk \in DOMAIN post :
        /\ \A sub \in Submissions :
             LET up == Dispatch(Store, "update", u, pk, sub[1], sub[2]) IN
             IF post[pk].user # u
             THEN up.resp.status = 403 /\ up.s = Store
             ELSE /\ up.resp.status # 403
                  /\ (sub[1] = "POST" /\ FormIsValid(sub[2])) =>
                        /\ up.resp.status = 302
                        /\ up.s.post[pk] = [user |-> u, title |-> sub[2].title,
                                            content |-> sub[2].content]
                        /\ \A q \in DOMAIN post \ {pk} : up.s.post[q] = post[q]
                        /\ DOMAIN up.s.post = DOMAIN post
                        /\ up.s.like = like
        /\ \A m \in Methods :
             LET del == Dispatch(Store, "delete", u, pk, m, NoForm) IN
             IF post[pk].user # u
             THEN del.resp.status = 403 /\ del.s = Store
             ELSE /\ del.resp.status # 403
                  /\ m = "POST" =>
                        /\ del.resp.status = 302
                        /\ DOMAIN del.s.post = DOMAIN post \ {pk}
                        /\ \A q \in DOMAIN post \ {pk} : del.s.post[q] = post[q]

\* A liked post that its owner has edited, and a user who is not its owner
\* and whose update and delete are refused.
C1_Witness ==
    \E u \in Users, pk \in DOMAIN post :
        /\ post[pk].user # u
        /\ post[pk].title = "Bye"
        /\ Liked(Store, u, pk)
        /\ Dispatch(Store, "update", u, pk, "POST", [title |-> "Hello", content |-> "World"]).resp.status = 403
        /\ Dispatch(Store, "delete", u, pk, "POST", NoForm).resp.status = 403

-----------------------------------------------------------------------------
(* C2 *)

\* C2: in every reachable state, for every user u, an existing post is once
\* in list-mine(u) and not in list-others(u) when u owns it, once in
\* list-others(u) and not in list-mine(u) when u does not, and no other key
\* is in either list; a post u creates is owned by u.
C2_ListsPartitionPosts ==
    \A u \in Users :
        LET mine == ListMine(Store, u)
            others == ListOthers(Store, u) IN
        /\ \A pk \in Pks :
             /\ Count(mine, pk) = IF pk \in DOMAIN post /\ post[pk].user = u THEN 1 ELSE 0
             /\ Count(others, pk) = IF pk \in DOMAIN post /\ post[pk].user # u THEN 1 ELSE 0
        /\ Range(mine) \cup Range(others) = DOMAIN post
        /\ \A form \in Forms :
             FormIsValid(form) =>
                LET s == Dispatch(Store, "create", u, 1, "POST", form).s IN
                /\ nextPost \in Range(ListMine(s, u))
                /\ nextPost \notin Range(ListOthers(s, u))
                /\ \A v \in Users \ {u} : nextPost \in Range(ListOthers(s, v))

\* Two posts of different owners exist: each user's two lists are non-empty.
C2_Witness ==
    \E u \in Users :
        /\ Len(ListMine(Store, u)) = 1
        /\ Len(ListOthers(Store, u)) = 1
        /\ like # {}
        /\ following # {}

-----------------------------------------------------------------------------
(* C3 *)

\* C3: for every existing post and every user, one like toggle (through
\* either like view) flips the user's membership in the post's likes, and a
\* second one right after it (through either view) restores it.
C3_LikeTwiceRestores ==
    \A u \in Users, pk \in DOMAIN post, v1 \in LikeViews, v2 \in LikeViews :
        LET r1 == Get(Store, v1, u, pk)
            r2 == Get(r1.s, v2, u, pk) IN
        /\ r1.resp.status = 302 /\ r2.resp.status = 302
        /\ Liked(r1.s, u, pk) # Liked(Store, u, pk)
        /\ Liked(r2.s, u, pk) = Liked(Store, u, pk)

\* A user likes a post: the second toggle is the one that removes.
C3_Witness ==
    \E u \in Users, pk \in DOMAIN post :
        /\ Liked(Store, u, pk)
        /\ ~Liked(Get(Store, "like-detail", u, pk).s, u, pk)

-----------------------------------------------------------------------------
(* C4 *)

\* C4: list-following(u) is, in every reachable state, the existing posts
\* whose owner is in u's following set; when u does not follow o, after u's
\* follow toggle on a post of o every post of o is in list-following(u), and
\* after u's next follow toggle on any post of o none is.
C4_FollowThenList ==
    \A u \in Users :
        /\ Range(ListFollowing(Store, u))
             = {pk \in DOMAIN post : post[pk].user \in FollowingOf(Store, u)}
        /\ \A pk \in DOMAIN post, v1 \in FollowViews :
             LET o == post[pk].user
                 r1 == Get(Store, v1, u, pk) IN
             o \notin FollowingOf(Store, u) =>
                /\ PostsOwnedBy(Store, o) \subseteq Range(ListFollowing(r1.s, u))
                /\ \A pk2 \in PostsOwnedBy(Store, o), v2 \in FollowViews :
                     LET r2 == Get(r1.s, v2, u, pk2) IN
                     PostsOwnedBy(Store, o) \cap Range(ListFollowing(r2.s, u)) = {}

\* A user follows the owner of two posts and sees both.
C4_Witness ==
    \E u \in Users : \E o \in Users \ {u} :
        /\ o \in FollowingOf(Store, u)
        /\ Cardinality(PostsOwnedBy(Store, o)) = 2
        /\ Len(ListFollowing(Store, u)) = 2

-----------------------------------------------------------------------------
(* C6 *)

\* C6: for a user u with no Connection, the first access through any view
\* that fetches the Connection inserts one row for u, whose following set is
\* empty when get_or_create returns, and reports it as created (the context
\* of follow-list holds the result of its second get_or_create); a second
\* access through any such view returns that row's id, reports it as not
\* created, inserts nothing, and leaves the following set as it was but for
\* the one user a follow toggle toggles.
C6_GetOrCreateSameIdentity ==
    \A u \in Users :
        ConnectionsOf(Store, u) = {} =>
            /\ LET g == GetOrCreate(Store, u) IN
               g.created /\ g.obj = nextConn /\ FollowingAll(g.s, g.obj) = {}
            /\ \A v1 \in ConnectionViews, pk1 \in Pks :
                 (v1 \in ViewsWithPk => pk1 \in DOMAIN post) =>
                    LET r1 == Get(Store, v1, u, pk1)
                        id == nextConn IN
                    /\ ConnectionsOf(r1.s, u) = {[id |-> id, user |-> u]}
                    /\ r1.s.connection = connection \cup {[id |-> id, user |-> u]}
                    /\ FollowingAll(r1.s, id)
                         = IF v1 \in FollowViews THEN {post[pk1].user} ELSE {}
                    /\ v1 \notin FollowViews =>
                          r1.resp.connection = <<id, v1 # "follow-list">>
                    /\ \A v2 \in ConnectionViews, pk2 \in Pks :
                         (v2 \in ViewsWithPk => pk2 \in DOMAIN post) =>
                            LET r2 == Get(r1.s, v2, u, pk2) IN
                            /\ r2.s.connection = r1.s.connection
                            /\ r2.s.nextConn = r1.s.nextConn
                            /\ v2 \notin FollowViews =>
                                  /\ r2.resp.connection = <<id, FALSE>>
                                  /\ r2.s.following = r1.s.following
                            /\ v2 \in FollowViews =>
                                  FollowingAll(r2.s, id) \ {post[pk2].user}
                                    = FollowingAll(r1.s, id) \ {post[pk2].user}

\* A user whose Connection holds a followed user, and whose next access gets
\* that Connection back, while another user has none yet.
C6_Witness ==
    \E u \in Users, v \in Users :
        /\ ConnectionsOf(Store, v) = {}
        /\ FollowingOf(Store, u) # {}
        /\ Get(Store, "home", u, 1).resp.connection[2] = FALSE
        /\ Get(Store, "home", u, 1).s.following = following

-----------------------------------------------------------------------------
(* C7 *)

\* C7: a like toggle or a follow toggle on a key that is no existing post
\* ends in Post.DoesNotExist and leaves the store unchanged: no likes, no
\* following set, no Connection.
C7_MissingPostToggleFails ==
    \A u \in Users, pk \in Pks \ DOMAIN post, view \in LikeViews \cup FollowViews :
        LET r == Get(Store, view, u, pk) IN
        /\ r.resp.exc = "DoesNotExist"
        /\ r.resp.status = 500
        /\ r.s = Store

\* A missing key, a user with no Connection yet, and likes and followings
\* that a failed toggle could have touched.
C7_Witness ==
    \E u \in Users, pk \in Pks \ DOMAIN post :
        /\ ConnectionsOf(Store, u) = {}
        /\ pk < nextPost
        /\ like # {}
        /\ following # {}
        /\ Get(Store, "follow-home", u, pk).resp.exc = "DoesNotExist"

-----------------------------------------------------------------------------
(* C8 *)

\* C8: the like table references only existing posts; and after the owner's
\* POST delete of a post, no like row references it, it is in no list view
\* of any user, the following sets, the Connections and the likes of the
\* other posts are as before, and a like or follow toggle on its key ends in
\* Post.DoesNotExist.
C8_DeleteCascades ==
    /\ \A l \in like : l[1] \in DOMAIN post
    /\ \A pk \in DOMAIN post :
         LET s == Dispatch(Store, "delete", post[pk].user, pk, "POST", NoForm).s IN
         /\ pk \notin DOMAIN s.post
         /\ \A l \in s.like : l[1] # pk
         /\ \A u \in Users :
              pk \notin Range(ListOthers(s, u)) \cup Range(ListMine(s, u))
                          \cup Range(ListFollowing(s, u))
         /\ s.following = following
         /\ s.connection = connection
         /\ {l \in s.like : l[1] # pk} = {l \in like : l[1] # pk}
         /\ \A u \in Users, view \in LikeViews \cup FollowViews :
              LET r == Get(s, view, u, pk) IN
              r.resp.exc = "DoesNotExist" /\ r.s = s

\* A deleted post, beside a post that is still liked and an owner who is
\* still followed.
C8_Witness ==
    \E pk \in Pks, q \in DOMAIN post :
        /\ pk < nextPost
        /\ pk \notin DOMAIN post
        /\ \E u \in Users : Liked(Store, u, q)
        /\ \E u \in Users : post[q].user \in FollowingOf(Store, u)

-----------------------------------------------------------------------------
(* C9 *)

\* C9: no request of another user, and no request of u other than a follow
\* toggle, changes u's following set; a follow toggle of u changes at most
\* the membership of the owner of the post it names.
C9_FollowingFrame ==
    \A q \in Requests :
        LET s == Do(Store, q).s IN
        \* (the first disjunct implies the second: it only spares evaluating it)
        \/ s.following = following /\ s.connection = connection
        \/ \A u \in Users :
              IF q[2] = u /\ q[1] \in FollowViews
              THEN \A w \in Users :
                      (w \in FollowingOf(s, u)) # (w \in FollowingOf(Store, u))
                          => q[3] \in DOMAIN post /\ w = post[q[3]].user
              ELSE FollowingOf(s, u) = FollowingOf(Store, u)

\* Both users follow somebody, each a different set, and one of them is
\* followed by the other.
C9_Witness ==
    \E u \in Users : \E v \in Users \ {u} :
        /\ u \in FollowingOf(Store, v)
        /\ FollowingOf(Store, u) # {}
        /\ FollowingOf(Store, u) # FollowingOf(Store, v)
        /\ PostsOwnedBy(Store, u) # {}

-----------------------------------------------------------------------------
(* C5 *)

-----------------------------------------------------------------------------
(* C10 *)

\* C10: with the statements of different users' like toggles interleaved, a
\* user's membership in a post's likes is, whenever the user has no toggle
\* between its check and its act, the initial one (absent) flipped once per
\* toggle of the user on the post; and the act of a toggle changes no other
\* membership than the user's own in that post.
C10_LikeTogglesIndependent ==
    /\ \A u \in Users, pk \in DOMAIN post :
         Liked(Store, u, pk) = (<<pk, u>> \in toggled)
    /\ \A u \in Users :
         liking[u].pc = "act" =>
            LET s == LikeWrite(Store, u, liking[u].pk, liking[u].member) IN
            /\ s.like \ {<<liking[u].pk, u>>} = like \ {<<liking[u].pk, u>>}
            /\ Liked(s, u, liking[u].pk) # Liked(Store, u, liking[u].pk)

\* Two users are between check and act on the same post, one about to
\* remove its like and one about to add, beside a like on another post.
C10_Witness ==
    \E u \in Users : \E v \in Users \ {u} :
        /\ liking[u].pc = "act" /\ liking[v].pc = "act"
        /\ liking[u].pk = liking[v].pk
        /\ liking[u].member /\ ~liking[v].member
        /\ \E l \in like : l[1] # liking[u].pk

====
